---------------------------- MODULE Spec2Model ----------------------------
(***************************************************************************)
(* Model of the tourism orchestrator (src/agents/orchestrator.py) and of   *)
(* the two provider agents it calls (src/agents/weather_agent.py,          *)
(* src/agents/places_agent.py).                                            *)
(*                                                                         *)
(* Encoding of Python values:                                              *)
(*   - a str is a sequence of one-character strings;                       *)
(*   - None is the empty sequence << >>, any other optional value v is the *)
(*     one-element sequence <<v>> (None, Some);                            *)
(*   - a dict is a function whose DOMAIN is its key set (Get is dict.get); *)
(*   - a call either returns a value or raises (Return, Raise);            *)
(*   - temperatures are whole degrees Celsius, precipitation tenths of mm. *)
(***************************************************************************)
EXTENDS Integers, Sequences, FiniteSets, TLC

(***************************************************************************)
(* Bounds of the model.                                                    *)
(***************************************************************************)
\* longest query, in words of Vocabulary
MaxWords == 2
\* most elements the Overpass answer holds
MaxFound == 1
\* longest query given to extract_city_from_query alone, in tokens
MaxTokens == 3
\* most elements of an Overpass answer whose attractions are listed
MaxListed == 6

(***************************************************************************)
(* Python values.                                                          *)
(***************************************************************************)
None == << >>
Some(v) == <<v>>
EmptyDict == << >>
Get(d, k, default) == IF k \in DOMAIN d THEN d[k] ELSE default
Return(v) == [raised |-> FALSE, exc |-> "", msg |-> << >>, value |-> v]
\* exc is the exception's class, msg is str(e)
Raise(exc, msg) == [raised |-> TRUE, exc |-> exc, msg |-> msg, value |-> None]

(***************************************************************************)
(* str operations: lower(), title(), split(), the `in` substring test.     *)
(***************************************************************************)
LowerChars ==
    <<"a","b","c","d","e","f","g","h","i","j","k","l","m",
      "n","o","p","q","r","s","t","u","v","w","x","y","z">>
UpperChars ==
    <<"A","B","C","D","E","F","G","H","I","J","K","L","M",
      "N","O","P","Q","R","S","T","U","V","W","X","Y","Z">>
IsLower(c) == \E i \in DOMAIN LowerChars : LowerChars[i] = c
IsUpper(c) == \E i \in DOMAIN UpperChars : UpperChars[i] = c
IsCased(c) == IsLower(c) \/ IsUpper(c)
LowerChar(c) ==
    IF IsUpper(c)
    THEN LowerChars[CHOOSE i \in DOMAIN UpperChars : UpperChars[i] = c]
    ELSE c
UpperChar(c) ==
    IF IsLower(c)
    THEN UpperChars[CHOOSE i \in DOMAIN LowerChars : LowerChars[i] = c]
    ELSE c
Lower(s) == [i \in DOMAIN s |-> LowerChar(s[i])]
Title(s) ==
    [i \in DOMAIN s |->
        IF i = 1 \/ ~IsCased(s[i - 1]) THEN UpperChar(s[i]) ELSE LowerChar(s[i])]
Contains(hay, needle) ==
    \E i \in 0..(Len(hay) - Len(needle)) :
        SubSeq(hay, i + 1, i + Len(needle)) = needle
RECURSIVE SplitFrom(_, _, _)
SplitFrom(s, i, cur) ==
    IF i > Len(s)
    THEN IF cur = << >> THEN << >> ELSE <<cur>>
    ELSE IF s[i] = " "
         THEN IF cur = << >>
              THEN SplitFrom(s, i + 1, << >>)
              ELSE <<cur>> \o SplitFrom(s, i + 1, << >>)
         ELSE SplitFrom(s, i + 1, Append(cur, s[i]))
Split(s) == SplitFrom(s, 1, << >>)
AnyIn(keywords, text) == \E k \in DOMAIN keywords : Contains(text, keywords[k])

(***************************************************************************)
(* extract_city_from_query                                                 *)
(***************************************************************************)
cities ==
    << <<"p","a","r","i","s">>,
       <<"l","o","n","d","o","n">>,
       <<"t","o","k","y","o">>,
       <<"n","e","w"," ","y","o","r","k">>,
       <<"m","u","m","b","a","i">>,
       <<"b","a","n","g","a","l","o","r","e">>,
       <<"d","e","l","h","i">>,
       <<"s","y","d","n","e","y">>,
       <<"r","o","m","e">>,
       <<"b","e","r","l","i","n">> >>
location_words ==
    << <<"i","n">>,
       <<"t","o">>,
       <<"f","o","r">>,
       <<"a","b","o","u","t">> >>
IsLocationWord(w) == \E k \in DOMAIN location_words : location_words[k] = w
CityCandidateOk(c) == Len(c) > 2 /\ ~Contains(c, <<",">>) /\ ~Contains(c, <<".">>)
\* the positions at which the loop of lines 41-45 returns
CandidateAt(words, i) ==
    /\ IsLocationWord(words[i])
    /\ i + 1 <= Len(words)
    /\ CityCandidateOk(words[i + 1])
DefaultCity(query_lower) ==
    IF \/ Contains(query_lower, <<"i","n","d","i","a">>)
       \/ Contains(query_lower, <<"m","u","m","b","a","i">>)
       \/ Contains(query_lower, <<"b","a","n","g","a","l","o","r","e">>)
    THEN <<"M","u","m","b","a","i">>
    ELSE IF \/ Contains(query_lower, <<"u","k">>)
            \/ Contains(query_lower, <<"l","o","n","d","o","n">>)
         THEN <<"L","o","n","d","o","n">>
         ELSE <<"P","a","r","i","s">>
\* extract_city_from_query deciding on the first location word alone
extract_city_first_preposition(query) ==
    LET query_lower == Lower(query)
        hits == {k \in DOMAIN cities : Contains(query_lower, cities[k])}
        words == Split(query_lower)
        preps == {i \in DOMAIN words : IsLocationWord(words[i])}
        first == CHOOSE i \in preps : \A j \in preps : i <= j
    IN  IF hits # {}
        THEN Title(cities[CHOOSE k \in hits : \A j \in hits : k <= j])
        ELSE IF preps # {} /\ CandidateAt(words, first)
             THEN Title(words[first + 1])
             ELSE DefaultCity(query_lower)
\* where needle first occurs in hay (0-based), Len(hay) when it does not
FirstIndex(hay, needle) ==
    IF Contains(hay, needle)
    THEN CHOOSE i \in 0..(Len(hay) - Len(needle)) :
            /\ SubSeq(hay, i + 1, i + Len(needle)) = needle
            /\ \A j \in 0..(i - 1) : SubSeq(hay, j + 1, j + Len(needle)) # needle
    ELSE Len(hay)
\* extract_city_from_query returning the city that occurs first in the query
extract_city_by_position(query) ==
    LET query_lower == Lower(query)
        hits == {k \in DOMAIN cities : Contains(query_lower, cities[k])}
        words == Split(query_lower)
        cands == {i \in DOMAIN words : CandidateAt(words, i)}
    IN  IF hits # {}
        THEN Title(cities[CHOOSE k \in hits : \A j \in hits :
                        FirstIndex(query_lower, cities[k])
                            <= FirstIndex(query_lower, cities[j])])
        ELSE IF cands # {}
             THEN Title(words[(CHOOSE i \in cands : \A j \in cands : i <= j) + 1])
             ELSE DefaultCity(query_lower)
extract_city_from_query(query) ==
    LET query_lower == Lower(query)
        hits == {k \in DOMAIN cities : Contains(query_lower, cities[k])}
        words == Split(query_lower)
        cands == {i \in DOMAIN words : CandidateAt(words, i)}
    IN  IF hits # {}
        THEN Title(cities[CHOOSE k \in hits : \A j \in hits : k <= j])
        ELSE IF cands # {}
             THEN Title(words[(CHOOSE i \in cands : \A j \in cands : i <= j) + 1])
             ELSE DefaultCity(query_lower)

(***************************************************************************)
(* determine_intent                                                        *)
(***************************************************************************)
weather_keywords ==
    << <<"w","e","a","t","h","e","r">>,
       <<"t","e","m","p","e","r","a","t","u","r","e">>,
       <<"r","a","i","n">>,
       <<"h","o","t">>,
       <<"c","o","l","d">>,
       <<"c","l","o","u","d","y">>,
       <<"s","u","n","n","y">>,
       <<"f","o","r","e","c","a","s","t">> >>
places_keywords ==
    << <<"a","t","t","r","a","c","t","i","o","n","s">>,
       <<"p","l","a","c","e","s">>,
       <<"v","i","s","i","t">>,
       <<"s","e","e">>,
       <<"t","o","u","r">>,
       <<"s","i","g","h","t","s","e","e","i","n","g">>,
       <<"l","a","n","d","m","a","r","k","s">>,
       <<"m","u","s","e","u","m">> >>
determine_intent(query) ==
    LET query_lower == Lower(query)
    IN  [weather_needed |-> AnyIn(weather_keywords, query_lower),
         places_needed |-> AnyIn(places_keywords, query_lower)]

(***************************************************************************)
(* The queries a caller submits: one to MaxWords words of Vocabulary,      *)
(* separated by single spaces.                                             *)
(***************************************************************************)
Vocabulary ==
    { <<"W","e","a","t","h","e","r">>,
      <<"i","n">>,
      <<"P","a","r","i","s">>,
      <<"A","t","t","r","a","c","t","i","o","n","s">>,
      <<"t","r","a","i","n">> }
RECURSIVE Join(_)
Join(ws) ==
    IF Len(ws) = 1 THEN ws[1] ELSE ws[1] \o <<" ">> \o Join(Tail(ws))
Queries ==
    UNION { {Join(ws) : ws \in [1..n -> Vocabulary]} : n \in 1..MaxWords }

\* the queries of test_orchestrator, with the providers each is expected to use
test_cases ==
    << [query |->
            <<"W","e","a","t","h","e","r"," ","i","n"," ","P","a","r","i","s">>,
        expected |-> "weather"],
       [query |->
            <<"A","t","t","r","a","c","t","i","o","n","s"," ","i","n"," ","T","o","k","y","o">>,
        expected |-> "places"],
       [query |->
            <<"P","l","a","n"," ","t","r","i","p"," ","t","o"," ","L","o","n","d","o","n">>,
        expected |-> "both"],
       [query |->
            <<"M","u","m","b","a","i"," ","s","i","g","h","t","s","e","e","i","n","g">>,
        expected |-> "both"] >>
TestQueries == {test_cases[i].query : i \in DOMAIN test_cases}

(***************************************************************************)
(* The queries extract_city_from_query is applied to on its own: one to    *)
(* MaxTokens tokens, among them reference cities, the location words and   *)
(* tokens too short to be a city.                                          *)
(***************************************************************************)
ExtractVocabulary ==
    { <<"L","o","n","d","o","n">>,
      <<"p","a","r","i","s">>,
      <<"i","n">>,
      <<"T","o">>,
      <<"l","a">>,
      <<"g","o","a">>,
      <<"i","n","d","i","a">>,
      <<"U","K">>,
      <<"n","i","c","e",",">>,
      <<"R","o","m","e">> }
ExtractQueries ==
    UNION { {Join(ws) : ws \in [1..n -> ExtractVocabulary]} : n \in 1..MaxTokens }

(***************************************************************************)
(* weather_agent.py                                                        *)
(***************************************************************************)
\* What the Nominatim request of weather_agent.get_coordinates ends in.
WeatherGeocodeResults == {"found", "empty", "request_error", "parse_error"}
\* get_coordinates of weather_agent.py: (lat, lon), or (None, None)
weather_get_coordinates(geo) ==
    IF geo = "found"
    THEN [lat |-> Some(48), lon |-> Some(2)]
    ELSE [lat |-> None, lon |-> None]

\* Temperatures (degrees Celsius) the forecast reports.
Temps == {12, 14, 15, 24, 25}
\* Daily precipitation sums (tenths of a millimetre) the forecast reports.
Precipitations == {0, 4}
\* The "current_weather" object of a forecast: empty, or with its fields.
CurrentWeathers ==
    {EmptyDict} \cup
    {[temperature |-> Some(t), windspeed |-> Some(10), weathercode |-> Some(1)] :
        t \in Temps}
\* The "daily" object: empty, with empty arrays, or with one-day arrays.
Dailies ==
    {EmptyDict,
     [temperature_2m_max |-> << >>, temperature_2m_min |-> << >>,
      precipitation_sum |-> << >>]} \cup
    {[temperature_2m_max |-> <<Some(26)>>, temperature_2m_min |-> <<Some(10)>>,
      precipitation_sum |-> <<Some(p)>>] : p \in Precipitations}
\* What the Open-Meteo request ends in: a transport or HTTP error, a body
\* that is no JSON, or a JSON object.
ForecastResponses ==
    {[fault |-> f, data |-> EmptyDict] : f \in {"RequestException", "ValueError"}}
    \cup {[fault |-> "none", data |-> EmptyDict]}
    \cup {[fault |-> "none", data |-> [current_weather |-> c, daily |-> d]] :
            c \in CurrentWeathers, d \in Dailies}

\* list[0]
IndexErrorText ==
    <<"l","i","s","t"," ","i","n","d","e","x"," ","o","u","t"," ","o","f",
      " ","r","a","n","g","e">>
First(list) ==
    IF list = << >> THEN Raise("IndexError", IndexErrorText) ELSE Return(list[1])

weather_query(city_name, geo, forecast) ==
    LET coords == weather_get_coordinates(geo)
        data == forecast.data
        current == Get(data, "current_weather", EmptyDict)
        daily == Get(data, "daily", EmptyDict)
        high == First(Get(daily, "temperature_2m_max", <<None>>))
        low == First(Get(daily, "temperature_2m_min", <<None>>))
        precip == First(Get(daily, "precipitation_sum", <<None>>))
    IN  IF coords.lat = None \/ coords.lon = None
        THEN Return([success |-> FALSE, location |-> city_name,
                     reason |-> "Could not determine location coordinates"])
        ELSE IF forecast.fault = "RequestException"
        THEN Return([success |-> FALSE, location |-> city_name,
                     reason |-> "Failed to fetch weather data due to API error."])
        ELSE IF forecast.fault = "ValueError"
        THEN Return([success |-> FALSE, location |-> city_name,
                     reason |-> "Unexpected data format from weather API."])
        ELSE IF high.raised \/ low.raised \/ precip.raised
        THEN Raise("IndexError", IndexErrorText)
        ELSE Return(
            [success |-> TRUE,
             location |-> city_name,
             coordinates |-> coords,
             weather |->
                [current |->
                    [temperature |-> Get(current, "temperature", None),
                     windspeed |-> Get(current, "windspeed", None),
                     weathercode |-> Get(current, "weathercode", None)],
                 today |->
                    [high_temp |-> high.value,
                     low_temp |-> low.value,
                     precipitation |-> precip.value]]])

(***************************************************************************)
(* places_agent.py                                                         *)
(***************************************************************************)
\* What geolocator.geocode of places_agent.get_coordinates ends in.
PlacesGeocodeResults == {"found", "not_found", "error"}
\* get_coordinates of places_agent.py: (lat, lon), or None
places_get_coordinates(geo) ==
    IF geo = "found" THEN Some(<<48, 2>>) ELSE None

determine_attraction_category(tags) ==
    LET tourism == Lower(Get(tags, "tourism", << >>))
        leisure == Lower(Get(tags, "leisure", << >>))
        historic == Lower(Get(tags, "historic", << >>))
        natural == Lower(Get(tags, "natural", << >>))
    IN  IF \/ Contains(tourism, <<"m","u","s","e","u","m">>)
           \/ Contains(tourism, <<"g","a","l","l","e","r","y">>)
        THEN "Museum"
        ELSE IF \/ Contains(tourism, <<"a","t","t","r","a","c","t","i","o","n">>)
                \/ Contains(tourism, <<"v","i","e","w","p","o","i","n","t">>)
        THEN "Landmark"
        ELSE IF \/ Contains(historic, <<"c","a","s","t","l","e">>)
                \/ Contains(historic, <<"r","u","i","n","s">>)
                \/ Contains(historic, <<"m","o","n","u","m","e","n","t">>)
                \/ Contains(historic, <<"m","e","m","o","r","i","a","l">>)
        THEN "Historical"
        ELSE IF \/ Contains(natural, <<"p","e","a","k">>)
                \/ Contains(natural, <<"w","a","t","e","r","f","a","l","l">>)
                \/ Contains(natural, <<"c","a","v","e">>)
        THEN "Nature"
        ELSE IF \/ Contains(leisure, <<"p","a","r","k">>)
                \/ Contains(leisure, <<"g","a","r","d","e","n">>)
        THEN "Park"
        ELSE IF {"church", "cathedral", "temple", "mosque", "synagogue"}
                    \cap DOMAIN tags # {}
        THEN "Religious"
        ELSE "Attraction"

\* The named, located elements an Overpass answer holds: name, tags, and the
\* distance from the search centre (tenths of a kilometre).
ElementKinds ==
    {[name |-> "Louvre",
      tags |-> [tourism |-> <<"m","u","s","e","u","m">>, website |-> <<"w">>]],
     [name |-> "Eiffel Tower",
      tags |-> [tourism |-> <<"a","t","t","r","a","c","t","i","o","n">>]],
     [name |-> "Old Castle",
      tags |-> [historic |-> <<"c","a","s","t","l","e">>]],
     [name |-> "St Mary",
      tags |-> [building |-> <<"c","h","u","r","c","h">>]]}
Distances == {3, 12}
OverpassElements ==
    {[name |-> k.name, tags |-> k.tags, distance_km |-> d] :
        k \in ElementKinds, d \in Distances}
\* What the Overpass request ends in.
OverpassResponses ==
    {[fault |-> f, elements |-> << >>] :
        f \in {"Timeout", "RequestException", "JSONDecodeError", "Exception"}}
    \cup UNION {{[fault |-> "none", elements |-> es] :
                    es \in [1..n -> OverpassElements]} : n \in 0..MaxFound}

Take(list, n) == SubSeq(list, 1, IF Len(list) < n THEN Len(list) ELSE n)
\* list.sort(key=distance_km): stable, ascending
RECURSIVE InsertByDistance(_, _)
InsertByDistance(a, sorted) ==
    IF sorted = << >>
    THEN <<a>>
    ELSE IF a.distance_km < Head(sorted).distance_km
         THEN <<a>> \o sorted
         ELSE <<Head(sorted)>> \o InsertByDistance(a, Tail(sorted))
\* SortByDistance without the sort
Unsorted(list) == list
RECURSIVE SortByDistance(_)
SortByDistance(list) ==
    IF list = << >>
    THEN << >>
    ELSE InsertByDistance(list[Len(list)],
                          SortByDistance(SubSeq(list, 1, Len(list) - 1)))

OverpassError(error, message) == <<[error |-> error, message |-> message]>>
query_overpass_attractions(overpass, max_results) ==
    LET elements == Take(overpass.elements, max_results)
        attractions ==
            [i \in DOMAIN elements |->
                [name |-> elements[i].name,
                 type |-> Get(elements[i].tags, "tourism",
                              <<"a","t","t","r","a","c","t","i","o","n">>),
                 category |-> determine_attraction_category(elements[i].tags),
                 distance_km |-> elements[i].distance_km,
                 website |-> Get(elements[i].tags, "website", << >>)]]
    IN  CASE overpass.fault = "Timeout" ->
                OverpassError("Places API timeout",
                              "Tourist attractions service temporarily unavailable")
          [] overpass.fault = "RequestException" ->
                OverpassError("Places API error",
                              "Unable to fetch tourist attractions")
          [] overpass.fault = "JSONDecodeError" ->
                OverpassError("Invalid API response",
                              "Overpass API returned unexpected data format")
          [] overpass.fault = "Exception" ->
                OverpassError("Unexpected error",
                              "Places agent encountered an unknown issue")
          [] OTHER -> Take(SortByDistance(attractions), 5)

\* priority_categories with the default category at its end
priority_categories_with_default ==
    <<"Landmark", "Historical", "Museum", "Nature", "Park", "Religious",
      "Attraction">>
priority_categories ==
    <<"Landmark", "Historical", "Museum", "Nature", "Park", "Religious">>
Recommendation(attraction, category) ==
    [name |-> attraction.name,
     category |-> category,
     distance |-> attraction.distance_km,
     type |-> attraction.type,
     website |-> attraction.website]
\* RecommendFrom taking every attraction of a category, not the first two
RECURSIVE RecommendFromUncapped(_, _)
RecommendFromUncapped(attractions, k) ==
    IF k > Len(priority_categories)
    THEN << >>
    ELSE LET category == priority_categories[k]
             of_category == SelectSeq(attractions, LAMBDA a : a.category = category)
         IN  [i \in DOMAIN of_category |->
                 Recommendation(of_category[i], category)]
             \o RecommendFromUncapped(attractions, k + 1)
\* the loop of lines 288-303 from priority category k on
RECURSIVE RecommendFrom(_, _)
RecommendFrom(attractions, k) ==
    IF k > Len(priority_categories)
    THEN << >>
    ELSE LET category == priority_categories[k]
             of_category == SelectSeq(attractions, LAMBDA a : a.category = category)
             top_attractions == Take(of_category, 2)
         IN  [i \in DOMAIN top_attractions |->
                 Recommendation(top_attractions[i], category)]
             \o RecommendFrom(attractions, k + 1)
generate_travel_recommendations(attractions, location) ==
    IF attractions = << >> \/ "error" \in DOMAIN attractions[1]
    THEN [message |-> "No tourist attractions found",
          recommendations |-> << >>]
    ELSE [location |-> location,
          total_found |-> Len(attractions),
          recommended |-> Take(RecommendFrom(attractions, 1), 5),
          travel_tips |-> "travel_tips"]

\* Python: a str never equals a dict
StrEqualsDict(s, d) == FALSE
StrInList(s, list) == \E i \in DOMAIN list : StrEqualsDict(s, list[i])
\* dict[key]
KeyErrorText(k) ==
    CASE k = "recommended" ->
           <<"'","r","e","c","o","m","m","e","n","d","e","d","'">>
      [] k = "travel_tips" ->
           <<"'","t","r","a","v","e","l","_","t","i","p","s","'">>
Item(d, k) == IF k \in DOMAIN d THEN Return(d[k]) ELSE Raise("KeyError", KeyErrorText(k))

places_query(location, geo, overpass) ==
    LET coordinates == places_get_coordinates(geo)
        attractions == query_overpass_attractions(overpass, 20)
        recommendations == generate_travel_recommendations(attractions, location)
        recommended == Item(recommendations, "recommended")
        travel_tips == Item(recommendations, "travel_tips")
    IN  IF coordinates = None
        THEN Return([error |-> "The AI doesn't know this place exists",
                     found_attractions |-> 0,
                     success |-> FALSE])
        ELSE IF StrInList("error", attractions)
        THEN Return([error |-> "Unable to fetch attractions",
                     location |-> location,
                     coordinates |-> coordinates,
                     success |-> FALSE])
        ELSE IF recommended.raised
        THEN recommended
        ELSE IF travel_tips.raised
        THEN travel_tips
        ELSE Return(
            [location |-> location,
             coordinates |-> coordinates,
             attractions |->
                [total_available |-> Len(attractions),
                 recommended_count |-> Len(Get(recommendations, "recommended", << >>)),
                 top_recommendations |-> recommended.value,
                 travel_tips |-> travel_tips.value],
             success |-> TRUE])

(***************************************************************************)
(* orchestrator.py: the response texts.  A text is the sequence of its     *)
(* lines; a line is its template and the values formatted into it.         *)
(***************************************************************************)
Line(template, args) == [line |-> template, val |-> args]
TypeErrorText ==
    <<"'","<","'"," ","n","o","t"," ","s","u","p","p","o","r","t","e","d",
      " ","b","e","t","w","e","e","n"," ","i","n","s","t","a","n","c","e",
      "s"," ","o","f"," ","'","N","o","n","e","T","y","p","e","'"," ","a",
      "n","d"," ","'","i","n","t","'">>
\* `a < b` and `a > b` raise TypeError when a is None
Comparable(a) == a # None

\* WeatherTips with the band limits taken inclusively
WeatherTipsInclusive(temp) ==
    IF temp <= 15
    THEN <<Line("It's cool weather - consider bringing a jacket for outdoor activities.", << >>),
           Line("Good for museums, indoor attractions, and shopping.", << >>)>>
    ELSE IF temp <= 25
    THEN <<Line("Pleasant weather - perfect for sightseeing and walking tours.", << >>),
           Line("Ideal conditions for parks and outdoor exploration.", << >>)>>
    ELSE <<Line("Warm weather - light clothing recommended.", << >>),
           Line("Great for outdoor activities and casual exploration.", << >>)>>
WeatherTips(temp) ==
    IF temp < 15
    THEN <<Line("It's cool weather - consider bringing a jacket for outdoor activities.", << >>),
           Line("Good for museums, indoor attractions, and shopping.", << >>)>>
    ELSE IF temp < 25
    THEN <<Line("Pleasant weather - perfect for sightseeing and walking tours.", << >>),
           Line("Ideal conditions for parks and outdoor exploration.", << >>)>>
    ELSE <<Line("Warm weather - light clothing recommended.", << >>),
           Line("Great for outdoor activities and casual exploration.", << >>)>>

create_weather_response(location, weather_data) ==
    LET current == Get(Get(weather_data, "weather", EmptyDict), "current", EmptyDict)
        today == Get(Get(weather_data, "weather", EmptyDict), "today", EmptyDict)
        temp == Get(current, "temperature", Some(0))
        precipitation == Get(current, "precipitation", Some(0))
    IN  IF ~Comparable(temp) \/ ~Comparable(precipitation)
        THEN Raise("TypeError", TypeErrorText)
        ELSE Return(
            <<Line("**Weather Update for {location}**", <<location>>),
              Line("- Temperature: {temp}C", <<temp>>),
              Line("- High: {high_temp}C", <<Get(today, "high_temp", None)>>),
              Line("- Low: {low_temp}C", <<Get(today, "low_temp", None)>>),
              Line("**Travel Tips**", << >>)>>
            \o WeatherTips(temp[1])
            \o (IF precipitation[1] > 0
                THEN <<Line("Rain possible - keep an umbrella handy!", << >>)>>
                ELSE << >>)
            \o <<Line("Would you like to know about top attractions in {location}?",
                      <<location>>)>>)

\* the loop of lines 223-233 from attraction i on
RECURSIVE PlacesLinesFrom(_, _)
PlacesLinesFrom(attractions, i) ==
    IF i > Len(attractions)
    THEN << >>
    ELSE LET attraction == attractions[i]
         IN  <<Line("{i}. **{name}** ({distance})",
                    <<i, attraction.name, Get(attraction, "distance", 0)>>),
               Line("   {category}", <<Get(attraction, "category", "Attraction")>>)>>
             \o (IF Get(attraction, "website", << >>) # << >>
                 THEN <<Line("   {website}", <<attraction.website>>)>>
                 ELSE << >>)
             \o PlacesLinesFrom(attractions, i + 1)

create_places_response(location, places_data) ==
    LET attractions ==
            Get(Get(places_data, "attractions", EmptyDict), "top_recommendations", << >>)
    IN  IF attractions = << >>
        THEN Return(
            <<Line("**Tourist Attractions in {location}**", <<location>>),
              Line("I searched for popular attractions in {location}, but couldn't find specific tourist sites in the current database.",
                   <<location>>),
              Line("**Popular {location} Activities:**", <<location>>),
              Line("Explore local markets and street food", << >>),
              Line("Visit cultural landmarks and temples", << >>),
              Line("Check out modern architecture and shopping areas", << >>),
              Line("Try traditional local cuisine", << >>),
              Line("Would you like current weather information for {location} to help with your travel planning?",
                   <<location>>)>>)
        ELSE Return(
            <<Line("**Top Attractions in {location}**", <<location>>),
              Line("I found {len(attractions)} attractions for your visit! Here are the top recommendations:",
                   <<Len(attractions)>>)>>
            \o PlacesLinesFrom(Take(attractions, 5), 1)
            \o <<Line("**Travel Tips for {location}:**", <<location>>),
                 Line("Would you like to know the current weather in {location}?",
                      <<location>>)>>)

CombinedLines(attractions) ==
    [k \in 1..(3 * Len(attractions)) |->
        LET i == (k + 2) \div 3
            attraction == attractions[i]
        IN  IF k % 3 = 1
            THEN Line("{i}. **{name}** ({distance})",
                      <<i, attraction.name, Get(attraction, "distance", 0)>>)
            ELSE IF k % 3 = 2
            THEN Line("   {category} attraction",
                      <<Get(attraction, "category", "Attraction")>>)
            ELSE Line(IF i <= 3 THEN "   Open daily" ELSE "   Check hours", << >>)]

CombinedTips(temp) ==
    IF temp < 15
    THEN <<Line("**Cool Weather**: Dress in layers, bring jacket for evenings", << >>),
           Line("**Recommended**: Focus on indoor attractions and museums today", << >>)>>
    ELSE IF temp < 25
    THEN <<Line("**Pleasant Weather**: Perfect for sightseeing and walking tours", << >>),
           Line("**Recommended**: Explore outdoor landmarks and parks", << >>)>>
    ELSE <<Line("**Warm Weather**: Light clothing, sunscreen recommended", << >>),
           Line("**Recommended**: Great for walking tours and outdoor activities", << >>)>>

create_combined_response(location, weather_data, places_data) ==
    LET current == Get(Get(weather_data, "weather", EmptyDict), "current", EmptyDict)
        today == Get(Get(weather_data, "weather", EmptyDict), "today", EmptyDict)
        attractions ==
            Get(Get(places_data, "attractions", EmptyDict), "top_recommendations", << >>)
        temp == Get(current, "temperature", Some(0))
        precipitation == Get(current, "precipitation", Some(0))
    IN  IF ~Comparable(temp) \/ ~Comparable(precipitation)
        THEN Raise("TypeError", TypeErrorText)
        ELSE Return(
            <<Line("**Complete Travel Guide for {location}**", <<location>>),
              Line("**Current Weather**: {temp}C, {conditions}", <<temp>>),
              Line("**Today's Forecast**: High {high_temp}C, Low {low_temp}C",
                   <<Get(today, "high_temp", None), Get(today, "low_temp", None)>>),
              Line("**Top 5 Attractions in {location}:**", <<location>>)>>
            \o (IF attractions # << >>
                THEN CombinedLines(Take(attractions, 5))
                ELSE <<Line("I found general attractions for {location} - would you like specific recommendations?",
                            << >>)>>)
            \o <<Line("**Weather-Based Travel Tips for {location}:**", <<location>>)>>
            \o CombinedTips(temp[1])
            \o (IF precipitation[1] > 0
                THEN <<Line("**Rain Possible**: Keep umbrella or rain jacket handy", << >>),
                       Line("**Backup Plan**: Indoor attractions ready if it rains", << >>)>>
                ELSE << >>)
            \o <<Line("**Suggested Plan for {location}:**", <<location>>),
                 Line(IF temp[1] < 15
                      THEN "**Morning**: Visit indoor attractions"
                      ELSE "**Morning**: Visit major landmarks", << >>),
                 Line(IF temp[1] < 25
                      THEN "**Afternoon**: Explore {location} by foot"
                      ELSE "**Afternoon**: Explore {location} by public transport",
                      <<location>>),
                 Line(IF temp[1] < 15
                      THEN "**Evening**: Enjoy indoor dining"
                      ELSE "**Evening**: Enjoy outdoor restaurants", << >>),
                 Line("**Your {location} adventure awaits!**", <<location>>)>>)

UnknownLocation ==
    <<"u","n","k","n","o","w","n"," ","l","o","c","a","t","i","o","n">>
create_error_response(query, location, errors) ==
    IF errors = << >>
    THEN Raise("IndexError", IndexErrorText)
    ELSE IF Contains(Lower(errors[1]), UnknownLocation) \/ location = << >>
    THEN Return(
        <<Line("**Travel Assistant Error**", << >>),
          Line("I'm sorry, I don't know the place '{location}'.", <<location>>),
          Line("Please try a major city like:", << >>),
          Line("Paris, France", << >>),
          Line("London, UK", << >>),
          Line("Tokyo, Japan", << >>),
          Line("New York, USA", << >>),
          Line("Mumbai, India", << >>),
          Line("Try again with a different city or check your internet connection!",
               << >>)>>)
    ELSE Return(
        <<Line("**Travel Assistant Error**", << >>),
          Line("I encountered technical issues while searching for {location}:",
               <<location>>)>>
        \o [i \in DOMAIN Take(errors, 2) |-> Line("{error}", <<errors[i]>>)]
        \o <<Line("Try again with a different city or check your internet connection!",
                  << >>)>>)

(***************************************************************************)
(* orchestrator.py: orchestrate_tourism_query                              *)
(***************************************************************************)
WeatherUnavailable ==
    <<"W","e","a","t","h","e","r"," ","d","a","t","a"," ","u","n","a","v",
      "a","i","l","a","b","l","e"," ","f","o","r"," ">>
WeatherServiceError ==
    <<"W","e","a","t","h","e","r"," ","s","e","r","v","i","c","e"," ","e",
      "r","r","o","r",":"," ">>
AttractionsUnavailable ==
    <<"A","t","t","r","a","c","t","i","o","n","s"," ","d","a","t","a"," ",
      "u","n","a","v","a","i","l","a","b","l","e"," ","f","o","r"," ">>
PlacesServiceError ==
    <<"P","l","a","c","e","s"," ","s","e","r","v","i","c","e"," ","e","r",
      "r","o","r",":"," ">>

\* DispatchPlaces without its default: places only when asked for
DispatchPlacesNoDefault(weather_needed, places_needed) == places_needed
\* line 93 and line 103: which providers a request calls
DispatchWeather(weather_needed, places_needed) == weather_needed \/ ~places_needed
DispatchPlaces(weather_needed, places_needed) == places_needed \/ ~weather_needed

\* Python truth value of a dict-or-None, and `d and d.get("success")`
Truthy(data) == data # None /\ data[1] # EmptyDict
Succeeded(data) == Truthy(data) /\ Get(data[1], "success", FALSE)

\* CatchWeather without the inner try: an exception leaves the block
CatchWeatherUncaught(outcome, location, errors) ==
    [data |-> IF outcome.raised THEN None ELSE Some(outcome.value),
     errors |->
        IF outcome.raised
        THEN errors
        ELSE IF ~Get(outcome.value, "success", FALSE)
             THEN Append(errors, WeatherUnavailable \o location)
             ELSE errors,
     propagated |-> outcome.raised]
\* lines 95-101: the weather call ended in `outcome`; what the try/except
\* leaves in weather_data and error_messages, and whether the exception
\* leaves the block
CatchWeather(outcome, location, errors) ==
    [data |-> IF outcome.raised THEN None ELSE Some(outcome.value),
     errors |->
        IF outcome.raised
        THEN Append(errors, WeatherServiceError \o outcome.msg)
        ELSE IF ~Get(outcome.value, "success", FALSE)
             THEN Append(errors, WeatherUnavailable \o location)
             ELSE errors,
     propagated |-> FALSE]
\* CatchPlaces recording an exception only, not a failed outcome
CatchPlacesUnrecorded(outcome, location, errors) ==
    [data |-> IF outcome.raised THEN None ELSE Some(outcome.value),
     errors |->
        IF outcome.raised
        THEN Append(errors, PlacesServiceError \o outcome.msg)
        ELSE errors,
     propagated |-> FALSE]
\* lines 105-111, for the places call
CatchPlaces(outcome, location, errors) ==
    [data |-> IF outcome.raised THEN None ELSE Some(outcome.value),
     errors |->
        IF outcome.raised
        THEN Append(errors, PlacesServiceError \o outcome.msg)
        ELSE IF ~Get(outcome.value, "success", FALSE)
             THEN Append(errors, AttractionsUnavailable \o location)
             ELSE errors,
     propagated |-> FALSE]

\* lines 114-121: the branch of step 4
ResponseBranch(weather, places) ==
    IF Truthy(weather) /\ Truthy(places) /\ Succeeded(weather) /\ Succeeded(places)
    THEN "combined"
    ELSE IF Succeeded(weather)
    THEN "weather"
    ELSE IF Succeeded(places)
    THEN "places"
    ELSE "error"
CreateResponse(chosen, query, loc, weather, places, errors) ==
    CASE chosen = "combined" -> create_combined_response(loc, weather[1], places[1])
      [] chosen = "weather" -> create_weather_response(loc, weather[1])
      [] chosen = "places" -> create_places_response(loc, places[1])
      [] OTHER -> create_error_response(query, loc, errors)

\* lines 125-134: the dict returned at the end of the try block
SuccessResult(response, loc, weather, places) ==
    [status |-> "success",
     response |-> response,
     technical |->
        [location |-> loc,
         weather_called |-> weather # None,
         places_called |-> places # None]]
\* ExceptResult without the outer try: the exception reaches the caller
ExceptResultUncaught(e, query) ==
    [status |-> "raised", response |-> << >>, technical |-> [error |-> e.msg]]
\* lines 136-145: the handler of the outer try
ExceptResult(e, query) ==
    [status |-> "error",
     response |->
        <<Line("I'm having trouble processing your request right now. The location '{extract_city_from_query(user_query)}' might not be recognized. Please try a major city like Paris, London, or Tokyo.",
               <<extract_city_from_query(query)>>)>>,
     technical |-> [error |-> e.msg]]

\* The environment of one provider call: what the geocoder answers and, when
\* the place was found, what the data request ends in.
NoRequest == [fault |-> "not requested"]
WeatherWorlds ==
    {[geo |-> g, forecast |-> NoRequest] : g \in WeatherGeocodeResults \ {"found"}}
    \cup {[geo |-> "found", forecast |-> f] : f \in ForecastResponses}
PlacesWorlds ==
    {[geo |-> g, overpass |-> NoRequest] : g \in PlacesGeocodeResults \ {"found"}}
    \cup {[geo |-> "found", overpass |-> o] : o \in OverpassResponses}

VARIABLES
    pc,              \* where orchestrate_tourism_query stands
    user_query,      \* its argument
    location,        \* line 81
    needs_weather,   \* line 85
    needs_places,    \* line 85
    weather_data,    \* line 89
    places_data,     \* line 90
    error_messages,  \* line 91
    branch,          \* the branch of step 4 taken, "" before
    result,          \* the returned dict, None before
    calls,           \* history: the providers called, in order
    weather_world,   \* history: what the weather call met, None if not called
    places_world     \* history: what the places call met, None if not called

vars ==
    <<pc, user_query, location, needs_weather, needs_places, weather_data,
      places_data, error_messages, branch, result, calls, weather_world,
      places_world>>

Init ==
    /\ pc = "idle"
    /\ user_query = << >>
    /\ location = << >>
    /\ needs_weather = FALSE
    /\ needs_places = FALSE
    /\ weather_data = None
    /\ places_data = None
    /\ error_messages = << >>
    /\ branch = ""
    /\ result = None
    /\ calls = << >>
    /\ weather_world = None
    /\ places_world = None

\* lines 77-91: a query of `queries` arrives; location and intent
Receive(queries) ==
    /\ pc = "idle"
    /\ \E query \in queries : user_query' = query
    /\ location' = extract_city_from_query(user_query')
    /\ needs_weather' = determine_intent(user_query').weather_needed
    /\ needs_places' = determine_intent(user_query').places_needed
    /\ weather_data' = None
    /\ places_data' = None
    /\ error_messages' = << >>
    /\ pc' = "weather"
    /\ UNCHANGED <<branch, result, calls, weather_world, places_world>>

\* lines 93-96: weather_query(location) is called and meets one of `worlds`;
\* the caller waits in it
CallWeather(worlds) ==
    /\ pc = "weather"
    /\ DispatchWeather(needs_weather, needs_places)
    /\ calls' = Append(calls, "weather")
    /\ \E world \in worlds : weather_world' = Some(world)
    /\ pc' = "weather_call"
    /\ UNCHANGED <<user_query, location, needs_weather, needs_places,
                   weather_data, places_data, error_messages, branch, result,
                   places_world>>

\* lines 96-101: the call returns or raises
ReturnWeather ==
    /\ pc = "weather_call"
    /\ LET world == weather_world[1]
           outcome == weather_query(location, world.geo, world.forecast)
           caught == CatchWeather(outcome, location, error_messages)
       IN  /\ weather_data' = caught.data
           /\ error_messages' = caught.errors
           /\ IF caught.propagated
              THEN /\ result' = Some(ExceptResult(outcome, user_query))
                   /\ pc' = "done"
              ELSE /\ result' = result
                   /\ pc' = "places"
    /\ UNCHANGED <<user_query, location, needs_weather, needs_places,
                   places_data, branch, calls, weather_world, places_world>>

\* line 93, the condition false
SkipWeather ==
    /\ pc = "weather"
    /\ ~DispatchWeather(needs_weather, needs_places)
    /\ pc' = "places"
    /\ UNCHANGED <<user_query, location, needs_weather, needs_places,
                   weather_data, places_data, error_messages, branch, result,
                   calls, weather_world, places_world>>

\* lines 103-106: places_query(location) is called and meets one of `worlds`;
\* the caller waits in it
CallPlaces(worlds) ==
    /\ pc = "places"
    /\ DispatchPlaces(needs_weather, needs_places)
    /\ calls' = Append(calls, "places")
    /\ \E world \in worlds : places_world' = Some(world)
    /\ pc' = "places_call"
    /\ UNCHANGED <<user_query, location, needs_weather, needs_places,
                   weather_data, places_data, error_messages, branch, result,
                   weather_world>>

\* lines 106-111: the call returns or raises
ReturnPlaces ==
    /\ pc = "places_call"
    /\ LET world == places_world[1]
           outcome == places_query(location, world.geo, world.overpass)
           caught == CatchPlaces(outcome, location, error_messages)
       IN  /\ places_data' = caught.data
           /\ error_messages' = caught.errors
           /\ IF caught.propagated
              THEN /\ result' = Some(ExceptResult(outcome, user_query))
                   /\ pc' = "done"
              ELSE /\ result' = result
                   /\ pc' = "respond"
    /\ UNCHANGED <<user_query, location, needs_weather, needs_places,
                   weather_data, branch, calls, weather_world, places_world>>

\* line 103, the condition false
SkipPlaces ==
    /\ pc = "places"
    /\ ~DispatchPlaces(needs_weather, needs_places)
    /\ pc' = "respond"
    /\ UNCHANGED <<user_query, location, needs_weather, needs_places,
                   weather_data, places_data, error_messages, branch, result,
                   calls, weather_world, places_world>>

\* Respond without the wait for the places call
RespondEarly ==
    /\ pc \in {"places_call", "respond"}
    /\ LET chosen == ResponseBranch(weather_data, places_data)
           response == CreateResponse(chosen, user_query, location,
                                      weather_data, places_data, error_messages)
       IN  /\ branch' = chosen
           /\ result' =
                Some(IF response.raised
                     THEN ExceptResult(response, user_query)
                     ELSE SuccessResult(response.value, location,
                                        weather_data, places_data))
    /\ pc' = "done"
    /\ UNCHANGED <<user_query, location, needs_weather, needs_places,
                   weather_data, places_data, error_messages, calls,
                   weather_world, places_world>>
\* lines 113-145: the response is built and returned
Respond ==
    /\ pc = "respond"
    /\ LET chosen == ResponseBranch(weather_data, places_data)
           response == CreateResponse(chosen, user_query, location,
                                      weather_data, places_data, error_messages)
       IN  /\ branch' = chosen
           /\ result' =
                Some(IF response.raised
                     THEN ExceptResult(response, user_query)
                     ELSE SuccessResult(response.value, location,
                                        weather_data, places_data))
    /\ pc' = "done"
    /\ UNCHANGED <<user_query, location, needs_weather, needs_places,
                   weather_data, places_data, error_messages, calls,
                   weather_world, places_world>>

Next ==
    \/ Receive(Queries \cup TestQueries)
    \/ CallWeather(WeatherWorlds)
    \/ ReturnWeather
    \/ SkipWeather
    \/ CallPlaces(PlacesWorlds)
    \/ ReturnPlaces
    \/ SkipPlaces
    \/ Respond

Spec == Init /\ [][Next]_vars

\* lines 77-81 alone: the location of a query of ExtractQueries
ExtractNext == Receive(ExtractQueries)
ExtractSpec == Init /\ [][ExtractNext]_vars

\* The requests whose answer lists attractions: a places-only query and a
\* query for both providers, fair weather, and Overpass answers of up to
\* MaxListed elements of several categories and distances.
ListQueries == {test_cases[2].query, test_cases[3].query}
FairWeather ==
    [geo |-> "found",
     forecast |->
        [fault |-> "none",
         data |->
            [current_weather |->
                [temperature |-> Some(24), windspeed |-> Some(10),
                 weathercode |-> Some(1)],
             daily |->
                [temperature_2m_max |-> <<Some(26)>>,
                 temperature_2m_min |-> <<Some(10)>>,
                 precipitation_sum |-> <<Some(0)>>]]]]
ListedElements ==
    {e \in OverpassElements :
        \/ e.name = "Eiffel Tower"
        \/ e.name = "Louvre" /\ e.distance_km = 3
        \/ e.name = "Old Castle" /\ e.distance_km = 12}
ListWorlds ==
    UNION {{[geo |-> "found", overpass |-> [fault |-> "none", elements |-> es]] :
                es \in [1..n -> ListedElements]} : n \in 0..MaxListed}
ListNext ==
    \/ Receive(ListQueries)
    \/ CallWeather({FairWeather})
    \/ ReturnWeather
    \/ SkipWeather
    \/ CallPlaces(ListWorlds)
    \/ ReturnPlaces
    \/ Respond
ListSpec == Init /\ [][ListNext]_vars

(***************************************************************************)
(* Properties.                                                             *)
(***************************************************************************)
Called(provider) == \E k \in DOMAIN calls : calls[k] = provider
\* the provider's call has been made and has not returned yet
InProgress(provider) ==
    \/ provider = "weather" /\ pc = "weather_call"
    \/ provider = "places" /\ pc = "places_call"
Finished(provider) == Called(provider) /\ ~InProgress(provider)
Dispatched == pc \in {"respond", "done"}
Returned == pc = "done"
Text == result[1].response
HasLine(text, template) == \E i \in DOMAIN text : text[i].line = template
HasAnyLine(text, templates) == \E i \in DOMAIN text : text[i].line \in templates
StartsWith(s, prefix) == Len(s) >= Len(prefix) /\ SubSeq(s, 1, Len(prefix)) = prefix
\* how a provider call ended
WeatherOk == weather_data # None /\ weather_data[1].success
PlacesOk == places_data # None /\ places_data[1].success
WeatherFailed == Called("weather") /\ ~WeatherOk
PlacesFailed == Called("places") /\ ~PlacesOk
\* the four response shapes, told by the heading of the text
ShapeOf(text) ==
    IF text = << >> THEN "none"
    ELSE IF text[1].line = "**Complete Travel Guide for {location}**" THEN "combined"
    ELSE IF text[1].line = "**Weather Update for {location}**" THEN "weather"
    ELSE IF text[1].line \in {"**Tourist Attractions in {location}**",
                              "**Top Attractions in {location}**"} THEN "places"
    ELSE IF text[1].line = "**Travel Assistant Error**" THEN "error"
    ELSE "other"
AttractionLines ==
    {"{i}. **{name}** ({distance})", "   {category}", "   {category} attraction"}
CoolTips ==
    {"It's cool weather - consider bringing a jacket for outdoor activities.",
     "Good for museums, indoor attractions, and shopping.",
     "**Cool Weather**: Dress in layers, bring jacket for evenings",
     "**Recommended**: Focus on indoor attractions and museums today"}
PleasantTips ==
    {"Pleasant weather - perfect for sightseeing and walking tours.",
     "Ideal conditions for parks and outdoor exploration.",
     "**Pleasant Weather**: Perfect for sightseeing and walking tours",
     "**Recommended**: Explore outdoor landmarks and parks"}
WarmTips ==
    {"Warm weather - light clothing recommended.",
     "Great for outdoor activities and casual exploration.",
     "**Warm Weather**: Light clothing, sunscreen recommended",
     "**Recommended**: Great for walking tours and outdoor activities"}
RainNotes ==
    {"Rain possible - keep an umbrella handy!",
     "**Rain Possible**: Keep umbrella or rain jacket handy"}
BandsIn(text) ==
    {b \in {"cool", "pleasant", "warm"} :
        HasAnyLine(text, CASE b = "cool" -> CoolTips
                           [] b = "pleasant" -> PleasantTips
                           [] OTHER -> WarmTips)}
\* the temperature and the precipitation the weather provider reported
ReportedTemperature == weather_data[1].weather.current.temperature
ReportedPrecipitation == weather_data[1].weather.today.precipitation

\* C1: once the dispatch is over, the weather provider was called iff the
\* query wants weather or does not want places, and the places provider iff
\* the query wants places or does not want weather (the flags being those of
\* determine_intent); a query with neither kind of keyword has both called,
\* and no query has none called.
C1_DispatchRule ==
    Dispatched =>
        LET intent == determine_intent(user_query)
            wantsWeather == intent.weather_needed
            wantsPlaces == intent.places_needed
        IN  /\ Called("weather") <=> (wantsWeather \/ ~wantsPlaces)
            /\ Called("places") <=> (wantsPlaces \/ ~wantsWeather)
            /\ (~wantsWeather /\ ~wantsPlaces) =>
                    (Called("weather") /\ Called("places"))
            /\ calls # << >>
C1_Witness ==
    /\ Returned
    /\ ~determine_intent(user_query).weather_needed
    /\ ~determine_intent(user_query).places_needed
    /\ calls = <<"weather", "places">>

\* C2: the returned text has exactly the shape the two provider outcomes
\* select by priority: combined when both succeeded, else weather-only when
\* weather succeeded, else places-only when places succeeded, else the error
\* response.
C2_ShapeByPriority ==
    Returned =>
        ShapeOf(Text) =
            IF WeatherOk /\ PlacesOk THEN "combined"
            ELSE IF WeatherOk THEN "weather"
            ELSE IF PlacesOk THEN "places"
            ELSE "error"

\* C3: when both providers were called and neither succeeded, the result has
\* status "error" and its text holds one of the recorded failure reasons.
C3_BothFailedIsError ==
    (Returned /\ WeatherFailed /\ PlacesFailed) =>
        /\ result[1].status = "error"
        /\ \E i \in DOMAIN Text : \E k \in DOMAIN error_messages :
                Text[i].line = "{error}" /\ Text[i].val[1] = error_messages[k]

\* C4: when both providers were called, weather succeeded and places did not,
\* the text is the weather narrative (the temperature, one band tip) and
\* lists no attraction.
C4_WeatherWhenPlacesFails ==
    (Returned /\ Called("weather") /\ WeatherOk /\ PlacesFailed) =>
        /\ HasLine(Text, "- Temperature: {temp}C")
        /\ Cardinality(BandsIn(Text)) = 1
        /\ ~HasAnyLine(Text, AttractionLines)

\* C5: a provider call that fails (a failed outcome or an exception) leaves
\* an entry in the error list, and however the weather call ended, the
\* places provider is called whenever the dispatch rule selects it.
C5_IndependentCalls ==
    /\ (Finished("weather") /\ WeatherFailed) =>
            \E k \in DOMAIN error_messages :
                \/ StartsWith(error_messages[k], WeatherUnavailable)
                \/ StartsWith(error_messages[k], WeatherServiceError)
    /\ (Dispatched /\ PlacesFailed) =>
            \E k \in DOMAIN error_messages :
                \/ StartsWith(error_messages[k], AttractionsUnavailable)
                \/ StartsWith(error_messages[k], PlacesServiceError)
    /\ (Dispatched /\ (needs_places \/ ~needs_weather)) => Called("places")
C5_Witness ==
    /\ Returned
    /\ Called("weather")
    /\ weather_data = None
    /\ Called("places")
    /\ PlacesOk

\* C6: whatever the providers do, the orchestrator returns a result whose
\* status is "success" or "error" and whose text is not empty; no exception
\* gets past it.
C6_AlwaysResponds ==
    Returned =>
        /\ result # None
        /\ result[1].status \in {"success", "error"}
        /\ Text # << >>
C6_Witness ==
    /\ Returned
    /\ result[1].status = "error"
    /\ Called("weather")
    /\ WeatherOk
    /\ Called("places")
    /\ places_data = None

\* C7: when the places geocoder finds the location and Overpass answers with
\* no element, the places call succeeds, no places failure is recorded, and
\* a places-only text is the generic fallback block.
C7_EmptyListFallsBack ==
    (Returned /\ places_world # None
        /\ places_world[1].geo = "found"
        /\ places_world[1].overpass.fault = "none"
        /\ places_world[1].overpass.elements = << >>) =>
        /\ PlacesOk
        /\ ~PlacesFailed
        /\ ~WeatherOk =>
              HasLine(Text, "**Popular {location} Activities:**")

\* C8: a weather-only or combined text holds the tips of exactly one
\* temperature band, the band of the reported temperature t: cool when
\* t < 15, pleasant when 15 <= t < 25, warm when t >= 25.
C8_BandByTemperature ==
    (Returned /\ ShapeOf(Text) \in {"weather", "combined"}) =>
        LET t == ReportedTemperature[1]
        IN  BandsIn(Text) =
                {IF t < 15 THEN "cool" ELSE IF t < 25 THEN "pleasant" ELSE "warm"}
C8_Witness ==
    /\ Returned
    /\ ShapeOf(Text) = "weather"
    /\ ReportedTemperature = Some(15)
    /\ BandsIn(Text) = {"pleasant"}

\* C9: when the weather provider succeeds without a temperature value, the
\* text is the weather narrative for temperature 0, with the cool band tip.
C9_MissingTemperatureIsCool ==
    (Returned /\ WeatherOk /\ ReportedTemperature = None) =>
        /\ ShapeOf(Text) \in {"weather", "combined"}
        /\ BandsIn(Text) = {"cool"}

\* C10: when the weather provider succeeds with precipitation above 0, the
\* weather narrative holds the rain note besides the band tip.
C10_RainNote ==
    (Returned /\ WeatherOk /\ ShapeOf(Text) \in {"weather", "combined"}
        /\ ReportedPrecipitation # None /\ ReportedPrecipitation[1] > 0) =>
        /\ HasAnyLine(Text, RainNotes)
        /\ BandsIn(Text) # {}

\* the reference cities the lower-cased query holds, as indices of `cities`
CitiesIn(query) == {k \in DOMAIN cities : Contains(Lower(query), cities[k])}
Extracted == pc # "idle"

\* C11: for a query whose lower-cased text holds a reference city, the
\* extracted location is a reference city in title case, namely the one
\* among those present that comes first in the reference list, wherever the
\* cities stand in the query.
C11_FirstReferenceCity ==
    (Extracted /\ CitiesIn(user_query) # {}) =>
        /\ \E k \in DOMAIN cities : location = Title(cities[k])
        /\ \A k \in CitiesIn(user_query) :
                (\A j \in CitiesIn(user_query) : k <= j) =>
                    location = Title(cities[k])
C11_Witness ==
    /\ Extracted
    /\ \E k, j \in CitiesIn(user_query) :
            /\ k < j
            /\ FirstIndex(Lower(user_query), cities[j])
                    < FirstIndex(Lower(user_query), cities[k])
            /\ location = Title(cities[k])


\* the error narratives, told by their second line
PlaceNotRecognized(text) ==
    /\ ShapeOf(text) = "error"
    /\ HasLine(text, "I'm sorry, I don't know the place '{location}'.")
    /\ \A city \in {"Paris, France", "London, UK", "Tokyo, Japan",
                    "New York, USA", "Mumbai, India"} : HasLine(text, city)
TechnicalIssue(text) ==
    /\ ShapeOf(text) = "error"
    /\ HasLine(text, "I encountered technical issues while searching for {location}:")
\* the failure reasons a text lists, in order
ReasonsListed(text) ==
    LET reasons == SelectSeq(text, LAMBDA l : l.line = "{error}")
    IN  [i \in DOMAIN reasons |-> reasons[i].val[1]]
\* the first provider call that failed could not geocode the location
FirstFailureIsGeocoding ==
    IF WeatherFailed
    THEN weather_world[1].geo # "found"
    ELSE PlacesFailed /\ places_world[1].geo # "found"

\* C12: when no provider succeeded and the first failure is a location the
\* adapter could not geocode, the text is the "place not recognized" message
\* with its example cities; in every other error response it is the
\* "technical issue" message listing the first two recorded reasons.
C12_ErrorNarrative ==
    (Returned /\ branch = "error" /\ ~WeatherOk /\ ~PlacesOk) =>
        IF FirstFailureIsGeocoding
        THEN PlaceNotRecognized(Text)
        ELSE /\ TechnicalIssue(Text)
             /\ ReasonsListed(Text) = Take(error_messages, 2)


\* C13: the places call does not wait for the weather call: whenever the
\* weather call is in progress and the dispatch rule selects the places
\* provider, the places call can be made.
C13_PlacesNotBlocked ==
    (InProgress("weather") /\ DispatchPlaces(needs_weather, needs_places)) =>
        ENABLED CallPlaces(PlacesWorlds)


\* how often a provider was called
TimesCalled(provider) == Cardinality({k \in DOMAIN calls : calls[k] = provider})
\* what a finished call leaves behind: the provider's data, or its error
OutcomeRecorded(provider) ==
    IF provider = "weather"
    THEN \/ weather_data # None
         \/ \E k \in DOMAIN error_messages :
                StartsWith(error_messages[k], WeatherServiceError)
    ELSE \/ places_data # None
         \/ \E k \in DOMAIN error_messages :
                StartsWith(error_messages[k], PlacesServiceError)
\* the providers the dispatch rule selects for the query
Selected(provider) ==
    LET intent == determine_intent(user_query)
    IN  IF provider = "weather"
        THEN intent.weather_needed \/ ~intent.places_needed
        ELSE intent.places_needed \/ ~intent.weather_needed
Synthesized == branch # "" \/ result # None

\* C14: the response is built only after every provider call made for the
\* request has finished and left its outcome; while a call is in progress
\* nothing has been synthesized; and when synthesis starts each selected
\* provider has been called exactly once, no provider ever more than once.
C14_SynthesisAfterCalls ==
    \A provider \in {"weather", "places"} :
        /\ TimesCalled(provider) <= 1
        /\ InProgress(provider) => ~Synthesized
        /\ (Dispatched \/ Synthesized) =>
                /\ TimesCalled(provider) = (IF Selected(provider) THEN 1 ELSE 0)
                /\ Called(provider) =>
                        Finished(provider) /\ OutcomeRecorded(provider)
C14_Witness ==
    /\ Synthesized
    /\ branch = "combined"
    /\ calls = <<"weather", "places">>
    /\ Finished("weather") /\ OutcomeRecorded("weather")
    /\ Finished("places") /\ OutcomeRecorded("places")


\* how the weather call made for the request ends
WeatherOutcome ==
    weather_query(location, weather_world[1].geo, weather_world[1].forecast)

\* C15: whatever the geocoder and the forecast request answer, weather_query
\* returns a dict and raises nothing; when the geocoding or the forecast
\* request failed, the dict has success False and a reason.
C15_WeatherNeverRaises ==
    Finished("weather") =>
        /\ ~WeatherOutcome.raised
        /\ weather_data # None
        /\ (\/ weather_world[1].geo # "found"
            \/ weather_world[1].forecast.fault # "none") =>
                /\ ~weather_data[1].success
                /\ Get(weather_data[1], "reason", "") # ""


\* the calls a label of test_cases stands for
ExpectedCalls(expected) ==
    CASE expected = "weather" -> <<"weather">>
      [] expected = "places" -> <<"places">>
      [] expected = "both" -> <<"weather", "places">>
ExpectedLocations ==
    << <<"P","a","r","i","s">>,
       <<"T","o","k","y","o">>,
       <<"L","o","n","d","o","n">>,
       <<"M","u","m","b","a","i">> >>

\* C16: for each of the four test queries, once the dispatch is over the
\* providers called are those of the query's expected label (weather only,
\* places only, both, both) and the location is Paris, Tokyo, London, Mumbai.
C16_TestCases ==
    \A i \in DOMAIN test_cases :
        (Dispatched /\ user_query = test_cases[i].query) =>
            /\ calls = ExpectedCalls(test_cases[i].expected)
            /\ location = ExpectedLocations[i]


\* the tokens of the lower-cased query, and the positions of its location
\* words (in, to, for, about)
Tokens == Split(Lower(user_query))
Prepositions == {i \in DOMAIN Tokens : IsLocationWord(Tokens[i])}
\* the token after position i can be a city: longer than 2, no ',' and no '.'
FollowerQualifies(i) ==
    /\ i + 1 \in DOMAIN Tokens
    /\ Len(Tokens[i + 1]) > 2
    /\ \A c \in DOMAIN Tokens[i + 1] : Tokens[i + 1][c] \notin {",", "."}
\* steps 3 and 4 for a query without reference city
Fallback ==
    IF Contains(Lower(user_query), <<"i","n","d","i","a">>)
    THEN <<"M","u","m","b","a","i">>
    ELSE IF Contains(Lower(user_query), <<"u","k">>)
    THEN <<"L","o","n","d","o","n">>
    ELSE <<"P","a","r","i","s">>

\* C17 as claimed: for a query without reference city the first location
\* word alone decides: its follower, if it qualifies, is the location in
\* title case; otherwise the location is the india/uk fallback or Paris,
\* whatever follows a later location word.
C17_FirstPrepositionOnly ==
    (Extracted /\ CitiesIn(user_query) = {}) =>
        IF /\ Prepositions # {}
           /\ \A i \in Prepositions :
                (\A j \in Prepositions : i <= j) => FollowerQualifies(i)
        THEN \A i \in Prepositions :
                (\A j \in Prepositions : i <= j) => location = Title(Tokens[i + 1])
        ELSE location = Fallback

\* C17 as amended: the location words are tried in order; the location is
\* the title-cased follower of the first location word whose follower
\* qualifies, and the india/uk fallback or Paris only when no location word
\* has a qualifying follower.
C17_FirstQualifyingPreposition ==
    (Extracted /\ CitiesIn(user_query) = {}) =>
        LET qualifying == {i \in Prepositions : FollowerQualifies(i)}
        IN  /\ \A i \in qualifying :
                    (\A j \in qualifying : i <= j) => location = Title(Tokens[i + 1])
            /\ qualifying = {} => location = Fallback
C17_Witness ==
    /\ Extracted
    /\ CitiesIn(user_query) = {}
    /\ \E i, j \in Prepositions :
            /\ i < j
            /\ ~FollowerQualifies(i)
            /\ FollowerQualifies(j)
            /\ location = Title(Tokens[j + 1])
            /\ location # Fallback


\* the attractions a text enumerates, in order: distance and category
Enumerated(text) ==
    LET heads == SelectSeq(text, LAMBDA l : l.line = "{i}. **{name}** ({distance})")
        cats == SelectSeq(text, LAMBDA l :
                    l.line \in {"   {category}", "   {category} attraction"})
    IN  [i \in DOMAIN heads |->
            [name |-> heads[i].val[2],
             distance |-> heads[i].val[3],
             category |-> cats[i].val[1]]]
\* the place of a category in priority_categories
Rank(category) == CHOOSE k \in DOMAIN priority_categories : priority_categories[k] = category
PlacesListing ==
    /\ Returned
    /\ ShapeOf(Text) = "places"
    /\ HasLine(Text, "**Top Attractions in {location}**")

\* C18 as claimed: a places-only text with a non-empty list enumerates at
\* most 5 attractions, in ascending order of distance.
C18_AscendingDistance ==
    PlacesListing =>
        LET listed == Enumerated(Text)
        IN  /\ Len(listed) \in 1..5
            /\ \A i, j \in DOMAIN listed :
                    i < j => listed[i].distance <= listed[j].distance

\* C18 as amended: a places-only text with a non-empty list enumerates at
\* most 5 attractions, in the adapter's order: by category priority, and in
\* ascending order of distance within a category.
C18_CategoryThenDistance ==
    PlacesListing =>
        LET listed == Enumerated(Text)
        IN  /\ Len(listed) \in 1..5
            /\ \A i, j \in DOMAIN listed :
                    i < j =>
                        \/ Rank(listed[i].category) < Rank(listed[j].category)
                        \/ /\ listed[i].category = listed[j].category
                           /\ listed[i].distance <= listed[j].distance
C18_Witness ==
    /\ PlacesListing
    /\ Len(places_world[1].overpass.elements) > 5
    /\ Len(Enumerated(Text)) = 5
    /\ \E i, j \in DOMAIN Enumerated(Text) :
            /\ i < j
            /\ Enumerated(Text)[i].distance > Enumerated(Text)[j].distance
    /\ \E i, j \in DOMAIN Enumerated(Text) :
            /\ i < j
            /\ Enumerated(Text)[i].category = Enumerated(Text)[j].category
            /\ Enumerated(Text)[i].distance < Enumerated(Text)[j].distance


CombinedListing ==
    /\ Returned
    /\ ShapeOf(Text) = "combined"
    /\ Enumerated(Text) # << >>
\* how many attractions of a category a listing holds, and how many elements
\* of that category Overpass found
ListedOf(listed, category) ==
    Cardinality({i \in DOMAIN listed : listed[i].category = category})
FoundOf(elements, category) ==
    Cardinality({i \in DOMAIN elements :
                    determine_attraction_category(elements[i].tags) = category})

\* C19: the attractions of a combined text are chosen by category priority
\* (Landmark, Historical, Museum, Nature, Park, Religious): they stand
\* grouped in that order, at most 2 of a category (the category's first two
\* when Overpass found no more than 5 elements), at most 5 in all.
C19_CategoryPriority ==
    CombinedListing =>
        LET listed == Enumerated(Text)
            found == places_world[1].overpass.elements
        IN  /\ Len(listed) <= 5
            /\ \A i \in DOMAIN listed :
                    \E k \in DOMAIN priority_categories :
                        listed[i].category = priority_categories[k]
            /\ \A i, j \in DOMAIN listed :
                    i < j => Rank(listed[i].category) <= Rank(listed[j].category)
            /\ \A k \in DOMAIN priority_categories :
                    /\ ListedOf(listed, priority_categories[k]) <= 2
                    /\ Len(found) <= 5 =>
                            ListedOf(listed, priority_categories[k]) =
                                (IF FoundOf(found, priority_categories[k]) < 2
                                 THEN FoundOf(found, priority_categories[k])
                                 ELSE 2)
C19_Witness ==
    /\ CombinedListing
    /\ FoundOf(places_world[1].overpass.elements, "Landmark") = 3
    /\ ListedOf(Enumerated(Text), "Landmark") = 2
    /\ Len(Enumerated(Text)) = 5
    /\ Enumerated(Text)[3].category = "Historical"
    /\ Enumerated(Text)[5].category = "Museum"


\* how the places call made for the request ends
PlacesOutcome ==
    places_query(location, places_world[1].geo, places_world[1].overpass)

\* C20: when the places geocoder finds the location and the Overpass request
\* fails (timeout, request error, invalid JSON, unexpected error),
\* places_query raises nothing and returns a dict with success False and the
\* "Unable to fetch attractions" error.
C20_OverpassFailureReported ==
    (Finished("places") /\ places_world[1].geo = "found"
        /\ places_world[1].overpass.fault # "none") =>
        /\ ~PlacesOutcome.raised
        /\ places_data # None
        /\ ~Get(places_data[1], "success", TRUE)
        /\ Get(places_data[1], "error", "") = "Unable to fetch attractions"


\* the provider an entry of the error list comes from
EntryOf(message) ==
    IF \/ StartsWith(message, WeatherUnavailable)
       \/ StartsWith(message, WeatherServiceError)
    THEN "weather"
    ELSE IF \/ StartsWith(message, AttractionsUnavailable)
            \/ StartsWith(message, PlacesServiceError)
    THEN "places"
    ELSE "other"
\* the providers called that did not succeed, in call order
FailedCalls ==
    SelectSeq(calls, LAMBDA p : IF p = "weather" THEN ~WeatherOk ELSE ~PlacesOk)

\* C21: when the error branch is taken the error list is not empty: it holds
\* exactly one entry for each provider called without success, the weather
\* entry before the places entry, and the error text is built without an
\* exception.
C21_ErrorListNotEmpty ==
    (Returned /\ branch = "error") =>
        /\ error_messages # << >>
        /\ [i \in DOMAIN error_messages |-> EntryOf(error_messages[i])] = FailedCalls
        /\ \A i, j \in DOMAIN error_messages :
                (EntryOf(error_messages[i]) = "weather"
                    /\ EntryOf(error_messages[j]) = "places") => i < j
        /\ result[1].status = "success"
        /\ ShapeOf(Text) = "error"
C21_Witness ==
    /\ Returned
    /\ branch = "error"
    /\ Len(error_messages) = 2
    /\ EntryOf(error_messages[1]) = "weather"
    /\ EntryOf(error_messages[2]) = "places"
    /\ weather_data = None
    /\ places_data # None


\* C22: in every returned success result, technical.weather_called tells
\* whether the weather provider was called during the request, and
\* technical.places_called whether the places provider was, also when the
\* call failed or raised.
C22_CalledFlags ==
    (Returned /\ result[1].status = "success") =>
        /\ result[1].technical.weather_called = Called("weather")
        /\ result[1].technical.places_called = Called("places")


\* the recommendations of a successful places result, and the elements
\* Overpass found for it
TopRecommendations == places_data[1].attractions.top_recommendations
FoundElements == places_world[1].overpass.elements
AllDefaultCategory ==
    /\ FoundElements # << >>
    /\ \A i \in DOMAIN FoundElements :
            determine_attraction_category(FoundElements[i].tags) = "Attraction"

\* C23: every attraction among the top recommendations of a successful places
\* result has one of the six priority categories, never the default
\* "Attraction"; when every element found has the default category the
\* recommendation list is empty and a places-only text is the generic
\* fallback block, with no attraction listed.
C23_DefaultNeverRecommended ==
    (Finished("places") /\ PlacesOk) =>
        /\ \A i \in DOMAIN TopRecommendations :
                TopRecommendations[i].category \in
                    {"Landmark", "Historical", "Museum", "Nature", "Park",
                     "Religious"}
        /\ AllDefaultCategory =>
                /\ TopRecommendations = << >>
                /\ (Returned /\ ShapeOf(Text) = "places") =>
                        /\ HasLine(Text, "**Popular {location} Activities:**")
                        /\ ~HasAnyLine(Text, AttractionLines)
C23_Witness ==
    /\ Returned
    /\ PlacesOk
    /\ AllDefaultCategory
    /\ places_data[1].attractions.total_available = 1
    /\ TopRecommendations = << >>
    /\ ShapeOf(Text) = "places"
    /\ HasLine(Text, "**Popular {location} Activities:**")

=============================================================================
